---- MODULE Spec2Model ----
(***************************************************************************)
(* parkos, src-tauri/src/lib.rs: the payment profile store.  Two tauri     *)
(* commands, load_payment_profile_blob and save_payment_profile_blob, over *)
(* one file <app-data-dir>/payment_profile.json.                           *)
(*                                                                         *)
(* Text is a sequence of one-character strings.  serde_json's from_str and *)
(* to_string_pretty are modelled as they work on text over Alphabet: a     *)
(* recursive-descent parse into a Value (objects are key-sorted maps, the  *)
(* last duplicate key wins) and the PrettyFormatter's two-space layout.    *)
(***************************************************************************)
EXTENDS Integers, Sequences, FiniteSets, TLC

\* ------------------------------------------------------------------ text

Q   == "\""
BS  == "\\"
LF  == "\n"
TAB == "\t"

\* The characters blobs are written in.  It holds no "u", "r", "e", "l", "f",
\* "-", "." or "E": over it no literal (null, true, false), sign, fraction or
\* exponent can be spelled, and the escapes are \" \\ \/ \n \t.
Alphabet ==
  {"{", "}", "[", "]", ",", ":", Q, BS, "/", " ", LF,
   "a", "j", "n", "o", "s", "t", "0", "1", "2"}

Whitespace == {" ", LF, TAB}
DigitChars == <<"0", "1", "2", "3", "4", "5", "6", "7", "8", "9">>
Digits     == {DigitChars[i] : i \in 1..10}
\* Characters below U+0020: not allowed raw inside a JSON string.
ControlChars == {LF, TAB}

DigitVal(c) == (CHOOSE i \in 1..10 : DigitChars[i] = c) - 1

\* The code point of a character (what String's Ord compares).
CodePoint(c) ==
  CASE c = TAB -> 9    [] c = LF  -> 10   [] c = " " -> 32   [] c = Q   -> 34
    [] c = "," -> 44   [] c = "/" -> 47   [] c = "0" -> 48   [] c = "1" -> 49
    [] c = "2" -> 50   [] c = ":" -> 58   [] c = "[" -> 91   [] c = BS  -> 92
    [] c = "]" -> 93   [] c = "a" -> 97   [] c = "j" -> 106  [] c = "n" -> 110
    [] c = "o" -> 111  [] c = "s" -> 115  [] c = "t" -> 116  [] c = "{" -> 123
    [] c = "}" -> 125

\* a < b for strings: bytewise lexicographic.
StrLess(a, b) ==
  \/ \E i \in 1..Len(a) :
       /\ i <= Len(b)
       /\ \A j \in 1..(i - 1) : a[j] = b[j]
       /\ CodePoint(a[i]) < CodePoint(b[i])
  \/ /\ Len(a) < Len(b)
     /\ \A j \in 1..Len(a) : a[j] = b[j]

\* ------------------------------------------------- serde_json::Value

\* One shape for every Value, so that any two compare: t is the variant, n a
\* Number, s a String, kids the members of an Array (k empty) or of an Object.
JNum(n)    == [t |-> "num", n |-> n, s |-> <<>>, kids |-> <<>>]
JStr(s)    == [t |-> "str", n |-> 0, s |-> s,    kids |-> <<>>]
JArr(kids) == [t |-> "arr", n |-> 0, s |-> <<>>, kids |-> kids]
JObj(kids) == [t |-> "obj", n |-> 0, s |-> <<>>, kids |-> kids]
Kid(k, v)  == [k |-> k, v |-> v]

\* Map::insert on the default (BTreeMap) Map: the entries stay sorted by key
\* and an equal key's value is replaced.
RECURSIVE MapInsertAt(_, _, _, _)
MapInsertAt(entries, k, v, i) ==
  IF i > Len(entries) THEN Append(entries, Kid(k, v))
  ELSE IF entries[i].k = k THEN [entries EXCEPT ![i] = Kid(k, v)]
  ELSE IF StrLess(k, entries[i].k)
    THEN SubSeq(entries, 1, i - 1) \o <<Kid(k, v)>> \o SubSeq(entries, i, Len(entries))
  ELSE MapInsertAt(entries, k, v, i + 1)

MapInsert(entries, k, v) == MapInsertAt(entries, k, v, 1)

\* ------------------------------------------------- serde_json::from_str

ParseOk(v, next) == [ok |-> TRUE, val |-> v, next |-> next]
ParseFail        == [ok |-> FALSE, val |-> JNum(0), next |-> 0]

RECURSIVE SkipWs(_, _)
SkipWs(s, i) ==
  IF i <= Len(s) /\ s[i] \in Whitespace THEN SkipWs(s, i + 1) ELSE i

RECURSIVE ParseDigits(_, _, _)
ParseDigits(s, i, acc) ==
  IF i <= Len(s) /\ s[i] \in Digits
    THEN ParseDigits(s, i + 1, 10 * acc + DigitVal(s[i]))
    ELSE ParseOk(JNum(acc), i)

\* s[i] is a digit.  A leading 0 followed by a digit is an invalid number.
\* (A number of MaxTextLen digits or fewer fits u64: no fall back to f64.)
ParseNumber(s, i) ==
  IF s[i] = "0"
    THEN IF i + 1 <= Len(s) /\ s[i + 1] \in Digits THEN ParseFail
         ELSE ParseOk(JNum(0), i + 1)
    ELSE ParseDigits(s, i, 0)

EscapeLetters == {Q, BS, "/", "n", "t"}
Unescape(c) == CASE c = "n" -> LF [] c = "t" -> TAB [] OTHER -> c

\* i is the place after the opening quote.
RECURSIVE ParseStr(_, _, _)
ParseStr(s, i, acc) ==
  IF i > Len(s) THEN ParseFail
  ELSE IF s[i] = Q THEN ParseOk(JStr(acc), i + 1)
  ELSE IF s[i] = BS
    THEN IF i + 1 <= Len(s) /\ s[i + 1] \in EscapeLetters
           THEN ParseStr(s, i + 2, Append(acc, Unescape(s[i + 1])))
           ELSE ParseFail
  ELSE IF s[i] \in ControlChars THEN ParseFail
  ELSE ParseStr(s, i + 1, Append(acc, s[i]))

RECURSIVE ParseValue(_, _), ParseElems(_, _, _), ParseMembers(_, _, _)
ParseValue(s, i) ==
  LET j == SkipWs(s, i) IN
  IF j > Len(s) THEN ParseFail
  ELSE IF s[j] \in Digits THEN ParseNumber(s, j)
  ELSE IF s[j] = Q THEN ParseStr(s, j + 1, <<>>)
  ELSE IF s[j] = "["
    THEN LET k == SkipWs(s, j + 1) IN
         IF k <= Len(s) /\ s[k] = "]" THEN ParseOk(JArr(<<>>), k + 1)
         ELSE ParseElems(s, j + 1, <<>>)
  ELSE IF s[j] = "{"
    THEN LET k == SkipWs(s, j + 1) IN
         IF k <= Len(s) /\ s[k] = "}" THEN ParseOk(JObj(<<>>), k + 1)
         ELSE ParseMembers(s, j + 1, <<>>)
  ELSE ParseFail

ParseElems(s, i, acc) ==
  LET v == ParseValue(s, i) IN
  IF ~v.ok THEN ParseFail
  ELSE LET k    == SkipWs(s, v.next)
           acc2 == Append(acc, Kid(<<>>, v.val))
       IN IF k > Len(s) THEN ParseFail
          ELSE IF s[k] = "," THEN ParseElems(s, k + 1, acc2)
          ELSE IF s[k] = "]" THEN ParseOk(JArr(acc2), k + 1)
          ELSE ParseFail

ParseMembers(s, i, acc) ==
  LET j == SkipWs(s, i) IN
  IF j > Len(s) \/ s[j] # Q THEN ParseFail
  ELSE LET key == ParseStr(s, j + 1, <<>>) IN
   IF ~key.ok THEN ParseFail
   ELSE LET c == SkipWs(s, key.next) IN
    IF c > Len(s) \/ s[c] # ":" THEN ParseFail
    ELSE LET v == ParseValue(s, c + 1) IN
     IF ~v.ok THEN ParseFail
     ELSE LET k    == SkipWs(s, v.next)
              acc2 == MapInsert(acc, key.val.s, v.val)
          IN IF k > Len(s) THEN ParseFail
             ELSE IF s[k] = "," THEN ParseMembers(s, k + 1, acc2)
             ELSE IF s[k] = "}" THEN ParseOk(JObj(acc2), k + 1)
             ELSE ParseFail

\* One value, then only whitespace.
ParseText(text) ==
  LET v == ParseValue(text, 1) IN
  IF v.ok /\ SkipWs(text, v.next) > Len(text) THEN v ELSE ParseFail

\* --------------------------------------- serde_json::to_string_pretty

RECURSIVE NumText(_)
NumText(n) ==
  IF n < 10 THEN <<DigitChars[n + 1]>>
  ELSE NumText(n \div 10) \o <<DigitChars[(n % 10) + 1]>>

EscapeChar(c) ==
  CASE c = Q   -> <<BS, Q>>
    [] c = BS  -> <<BS, BS>>
    [] c = LF  -> <<BS, "n">>
    [] c = TAB -> <<BS, "t">>
    [] OTHER   -> <<c>>

RECURSIVE EscapeFrom(_, _)
EscapeFrom(s, i) ==
  IF i > Len(s) THEN <<>> ELSE EscapeChar(s[i]) \o EscapeFrom(s, i + 1)

StrText(s) == <<Q>> \o EscapeFrom(s, 1) \o <<Q>>

Indent(level) == [i \in 1..(2 * level) |-> " "]

RECURSIVE Pretty(_, _), PrettyKids(_, _, _, _)
Pretty(v, level) ==
  CASE v.t = "num" -> NumText(v.n)
    [] v.t = "str" -> StrText(v.s)
    [] v.t = "arr" ->
         IF v.kids = <<>> THEN <<"[", "]">>
         ELSE <<"[">> \o PrettyKids(v.kids, 1, level + 1, FALSE)
                \o <<LF>> \o Indent(level) \o <<"]">>
    [] v.t = "obj" ->
         IF v.kids = <<>> THEN <<"{", "}">>
         ELSE <<"{">> \o PrettyKids(v.kids, 1, level + 1, TRUE)
                \o <<LF>> \o Indent(level) \o <<"}">>

PrettyKids(kids, i, level, isObj) ==
  IF i > Len(kids) THEN <<>>
  ELSE (IF i = 1 THEN <<LF>> ELSE <<",", LF>>)
       \o Indent(level)
       \o (IF isObj THEN StrText(kids[i].k) \o <<":", " ">> ELSE <<>>)
       \o Pretty(kids[i].v, level)
       \o PrettyKids(kids, i + 1, level, isObj)

to_string_pretty(v) == Pretty(v, 0)

\* --------------------------------------------------------------- inputs

\* Blobs no longer than this are passed to save.
MaxTextLen == 13
\* A failing write_all has written at most this many bytes.
MaxCut == 2

Corpus == <<
    <<"{", Q, "a", Q, ":", "1", "}">>,
    <<"{", " ", Q, "a", Q, " ", ":", " ", "1", " ", "}">>,
    <<"{", Q, "a", Q, ":", "2", "}">>,
    <<"[", " ", "]">>,
    <<Q, "a", BS, "/", "o", Q>>,
    <<"{", Q, "o", Q, ":", "2", ",", Q, "a", Q, ":", "1", "}">>,
    <<"{", Q, "a", Q, ":", "1", ",", Q, "a", Q, ":", "2", "}">>,
    <<"{", "n", "o", "t", " ", "j", "s", "o", "n">>,
    <<"[", "1", ",", "]">>,
    <<"{", Q, "a", Q, ":", "[", "1", ",", Q, BS, "t", Q, "]", "}">>
  >>

Blobs ==
  {Corpus[i] : i \in {j \in DOMAIN Corpus :
     /\ Len(Corpus[j]) <= MaxTextLen
     /\ \A k \in 1..Len(Corpus[j]) : Corpus[j][k] \in Alphabet}}

\* The parse of each blob, computed once.
Parsed == [b \in Blobs |-> ParseText(b)]

\* serde_json::from_str::<Value>
from_str(blob) == IF blob \in Blobs THEN Parsed[blob] ELSE ParseText(blob)

\* ---------------------------------------------------------- the store

Mode0600 == 384           \* 0o600

\* The mode File::create gives a new file: 0o666 masked by the process umask
\* (0o644 under umask 022, 0o600 under umask 077).
CreateModes == {420, 384}
\* Modes another process may give the file (0o666, 0o644).
LooseModes == {438, 420}

Callers == {"c1", "c2"}

VARIABLES
  dir,    \* whether the app data directory exists
  file,   \* payment_profile.json: [exists, bytes, mode]
  last,   \* the last call that returned: what was asked, what came back
  prev,   \* for a load: the call that returned just before it
  pc,     \* per concurrent caller: the step of save it is at
  arg,    \* per concurrent caller: the blob it was called with
  ser,    \* per concurrent caller: its local `serialized`
  ret     \* per concurrent caller: what its call returned

vars == <<dir, file, last, prev, pc, arg, ser, ret>>

NoFile == [exists |-> FALSE, bytes |-> <<>>, mode |-> 0]

\* The results, as the commands return them: Ok(()), Ok(None), Ok(Some(raw)),
\* or Err(message) with the message's fixed prefix.
Ok       == "Ok"
None     == "None"
Some     == "Some"
ErrPath  == "Failed to resolve app data directory"
ErrRead  == "Failed to read payment profile file"
ErrMkdir == "Failed to create payment profile directory"
ErrParse == "Failed to parse payment profile blob JSON"
ErrWrite == "Failed to write payment profile file"
ErrPerm  == "Failed to set payment profile file permissions"

\* Which host call fails during a command, if any.
NoFault    == "none"
LoadFaults == {"none", "path", "read"}
SaveFaults == {"none", "path", "mkdir", "open", "write", "chmod"}

\* ----------------------------------------------------------- std::fs

\* Path::exists
exists(f) == f.exists

\* Mutant of FsCreate: the file is opened without truncate(true).
FsCreateNoTruncate(f, m) ==
  IF f.exists THEN f ELSE [exists |-> TRUE, bytes |-> <<>>, mode |-> m]

\* File::create, the first half of fs::write: the file is created with mode m
\* if absent, and truncated to nothing (its mode kept) if present.
FsCreate(f, m) ==
  IF f.exists THEN [f EXCEPT !.bytes = <<>>]
  ELSE [exists |-> TRUE, bytes |-> <<>>, mode |-> m]

\* write_all through a descriptor whose offset is 0, the second half of
\* fs::write: data replaces the file's first Len(data) bytes; what a
\* concurrent writer put beyond them stays.
FsWriteAll(f, data) ==
  [f EXCEPT !.bytes = data \o SubSeq(f.bytes, Len(data) + 1, Len(f.bytes))]

\* Mutant of set_permissions: the mode is left as it is (the non-unix build).
set_permissions_skipped(f, mode) == f

\* fs::set_permissions(path, Permissions::from_mode(mode))
set_permissions(f, mode) == [f EXCEPT !.mode = mode]

\* ------------------------------------------------------- the commands

\* Mutant of load: no exists() check, a missing file is a read error.
load_without_exists_check(f, ft) ==
  IF ft = "path" THEN [res |-> ErrPath, text |-> <<>>]
  ELSE IF ft = "read" \/ ~exists(f) THEN [res |-> ErrRead, text |-> <<>>]
  ELSE [res |-> Some, text |-> f.bytes]

\* load_payment_profile_blob: its result and the text it carries.
load_payment_profile_blob(f, ft) ==
  IF ft = "path" THEN [res |-> ErrPath, text |-> <<>>]
  ELSE IF ~exists(f) THEN [res |-> None, text |-> <<>>]
  ELSE IF ft = "read" THEN [res |-> ErrRead, text |-> <<>>]
  ELSE [res |-> Some, text |-> f.bytes]

\* The tail of save once the blob has parsed: write, then restrict the mode.
\* `text` is what is written.
WriteAndRestrict(f, text, ft, n, m) ==
  IF ft = "open" THEN [dir |-> TRUE, file |-> f, res |-> ErrWrite]
  ELSE IF ft = "write"
    THEN [dir |-> TRUE,
          file |-> FsWriteAll(FsCreate(f, m), SubSeq(text, 1, n)),
          res |-> ErrWrite]
  ELSE
    LET written == FsWriteAll(FsCreate(f, m), text) IN
    IF ft = "chmod" THEN [dir |-> TRUE, file |-> written, res |-> ErrPerm]
    ELSE [dir |-> TRUE, file |-> set_permissions(written, Mode0600), res |-> Ok]

\* Mutant of save: the file is created (truncated) before the blob is parsed.
save_create_before_parse(d, f, blob, ft, n, m) ==
  IF ft = "path" THEN [dir |-> d, file |-> f, res |-> ErrPath]
  ELSE IF ft = "mkdir" THEN [dir |-> d, file |-> f, res |-> ErrMkdir]
  ELSE IF ft = "open" THEN [dir |-> TRUE, file |-> f, res |-> ErrWrite]
  ELSE
    LET parsed == from_str(blob) IN
    IF ~parsed.ok THEN [dir |-> TRUE, file |-> FsCreate(f, m), res |-> ErrParse]
    ELSE WriteAndRestrict(f, to_string_pretty(parsed.val), ft, n, m)

\* Mutant of save: the blob is validated but written as the caller gave it.
save_verbatim(d, f, blob, ft, n, m) ==
  IF ft = "path" THEN [dir |-> d, file |-> f, res |-> ErrPath]
  ELSE IF ft = "mkdir" THEN [dir |-> d, file |-> f, res |-> ErrMkdir]
  ELSE IF ~from_str(blob).ok THEN [dir |-> TRUE, file |-> f, res |-> ErrParse]
  ELSE WriteAndRestrict(f, blob, ft, n, m)

\* Mutant of save: a failed set_permissions is ignored.
save_ignoring_chmod_error(d, f, blob, ft, n, m) ==
  IF ft = "path" THEN [dir |-> d, file |-> f, res |-> ErrPath]
  ELSE IF ft = "mkdir" THEN [dir |-> d, file |-> f, res |-> ErrMkdir]
  ELSE
    LET parsed == from_str(blob) IN
    IF ~parsed.ok THEN [dir |-> TRUE, file |-> f, res |-> ErrParse]
    ELSE LET out == WriteAndRestrict(f, to_string_pretty(parsed.val), ft, n, m) IN
         IF ft = "chmod" THEN [out EXCEPT !.res = Ok] ELSE out

\* Mutant of save: the blob is parsed before the directory is created.
save_parse_before_mkdir(d, f, blob, ft, n, m) ==
  IF ft = "path" THEN [dir |-> d, file |-> f, res |-> ErrPath]
  ELSE
    LET parsed == from_str(blob) IN
    IF ~parsed.ok THEN [dir |-> d, file |-> f, res |-> ErrParse]
    ELSE IF ft = "mkdir" THEN [dir |-> d, file |-> f, res |-> ErrMkdir]
    ELSE WriteAndRestrict(f, to_string_pretty(parsed.val), ft, n, m)

\* save_payment_profile_blob on directory state d and file f.  ft is the host
\* call that fails; a failing write_all has written n bytes; m is the mode a
\* newly created file gets.  Returns the directory, the file and the result.
\* (to_string_pretty of a Value cannot fail: line 42's error never arises.)
save_payment_profile_blob(d, f, blob, ft, n, m) ==
  IF ft = "path" THEN [dir |-> d, file |-> f, res |-> ErrPath]
  ELSE IF ft = "mkdir" THEN [dir |-> d, file |-> f, res |-> ErrMkdir]
  ELSE
    LET parsed == from_str(blob) IN
    IF ~parsed.ok THEN [dir |-> TRUE, file |-> f, res |-> ErrParse]
    ELSE
      LET serialized == to_string_pretty(parsed.val) IN
      WriteAndRestrict(f, serialized, ft, n, m)

\* ----------------------------------------------------------- the record

Snapshot == [dir |-> dir, file |-> file]

Call(op, blob, ft, res, text) ==
  [op |-> op, blob |-> blob, fault |-> ft, res |-> res, text |-> text,
   before |-> Snapshot]

NoCall ==
  [op |-> "none", blob |-> <<>>, fault |-> NoFault, res |-> Ok, text |-> <<>>,
   before |-> [dir |-> FALSE, file |-> NoFile]]

Summary(call) == [op |-> call.op, blob |-> call.blob, res |-> call.res]
NoPrev == Summary(NoCall)

Init ==
  /\ dir = FALSE
  /\ file = NoFile
  /\ last = NoCall
  /\ prev = NoPrev
  /\ pc = [c \in Callers |-> "idle"]
  /\ arg = [c \in Callers |-> <<>>]
  /\ ser = [c \in Callers |-> <<>>]
  /\ ret = [c \in Callers |-> Ok]

\* How many bytes a failing write_all may have written.
CutPoints(blob, ft) ==
  IF ft = "write" /\ from_str(blob).ok
    THEN {n \in 0..MaxCut : n < Len(to_string_pretty(from_str(blob).val))}
    ELSE {0}

\* A directory that exists is not created again: create_dir_all fails only
\* where it has something to create.
FaultPossible(ft) == ft = "mkdir" => ~dir

LoadWith(faults) ==
  \E ft \in faults :
    LET out == load_payment_profile_blob(file, ft) IN
    /\ last' = Call("load", <<>>, ft, out.res, out.text)
    /\ prev' = IF last.op = "load" THEN prev ELSE Summary(last)
    /\ UNCHANGED <<dir, file, pc, arg, ser, ret>>

SaveWith(faults) ==
  \E blob \in Blobs, ft \in faults :
    \E n \in CutPoints(blob, ft),
       m \in (IF file.exists THEN {file.mode} ELSE CreateModes) :
      LET out == save_payment_profile_blob(dir, file, blob, ft, n, m) IN
      /\ FaultPossible(ft)
      /\ dir' = out.dir
      /\ file' = out.file
      /\ last' = Call("save", blob, ft, out.res, <<>>)
      /\ prev' = NoPrev
      /\ UNCHANGED <<pc, arg, ser, ret>>

\* The commands on a host whose calls succeed.
Load == LoadWith({NoFault})
Save == SaveWith({NoFault})

\* The commands on a host whose calls may fail.
LoadF == LoadWith(LoadFaults)
SaveF == SaveWith(SaveFaults)

\* Another process (the user, by hand) writes text to the store path, changes
\* the file's mode, or removes the file.
ExternalWrite ==
  \E text \in Blobs, m \in LooseModes :
    /\ dir' = TRUE
    /\ file' = [exists |-> TRUE, bytes |-> text,
                mode |-> IF file.exists THEN file.mode ELSE m]
    /\ last' = Call("external", text, NoFault, Ok, <<>>)
    /\ prev' = NoPrev
    /\ UNCHANGED <<pc, arg, ser, ret>>

ExternalChmod ==
  \E m \in LooseModes :
    /\ file.exists
    /\ file' = set_permissions(file, m)
    /\ last' = Call("external", <<>>, NoFault, Ok, <<>>)
    /\ prev' = NoPrev
    /\ UNCHANGED <<dir, pc, arg, ser, ret>>

ExternalRemove ==
  /\ file.exists
  /\ file' = NoFile
  /\ last' = Call("external", <<>>, NoFault, Ok, <<>>)
  /\ prev' = NoPrev
  /\ UNCHANGED <<dir, pc, arg, ser, ret>>

Next == Load \/ Save \/ ExternalWrite \/ ExternalChmod \/ ExternalRemove
Spec == Init /\ [][Next]_vars

NextFaults == LoadF \/ SaveF
SpecFaults == Init /\ [][NextFaults]_vars

\* ------------------------------------------- two saves at the same time

\* The command handlers run on a thread pool with no lock around the path:
\* each caller goes through save_payment_profile_blob's host calls one at a
\* time, and the calls of two callers interleave.  The host calls succeed.
Begin(c) ==
  \E blob \in Blobs :
    /\ pc[c] = "idle"
    /\ arg' = [arg EXCEPT ![c] = blob]
    /\ pc' = [pc EXCEPT ![c] = "mkdir"]
    /\ UNCHANGED <<dir, file, last, prev, ser, ret>>

\* fs::create_dir_all(parent)
Mkdir(c) ==
  /\ pc[c] = "mkdir"
  /\ dir' = TRUE
  /\ pc' = [pc EXCEPT ![c] = "parse"]
  /\ UNCHANGED <<file, last, prev, arg, ser, ret>>

\* from_str and to_string_pretty
Parse(c) ==
  /\ pc[c] = "parse"
  /\ LET parsed == from_str(arg[c]) IN
     IF parsed.ok
       THEN /\ ser' = [ser EXCEPT ![c] = to_string_pretty(parsed.val)]
            /\ pc' = [pc EXCEPT ![c] = "create"]
            /\ ret' = ret
       ELSE /\ ret' = [ret EXCEPT ![c] = ErrParse]
            /\ pc' = [pc EXCEPT ![c] = "done"]
            /\ ser' = ser
  /\ UNCHANGED <<dir, file, last, prev, arg>>

\* fs::write, first half: File::create
Create(c) ==
  \E m \in (IF file.exists THEN {file.mode} ELSE CreateModes) :
    /\ pc[c] = "create"
    /\ file' = FsCreate(file, m)
    /\ pc' = [pc EXCEPT ![c] = "write"]
    /\ UNCHANGED <<dir, last, prev, arg, ser, ret>>

\* fs::write, second half: write_all
Write(c) ==
  /\ pc[c] = "write"
  /\ file' = FsWriteAll(file, ser[c])
  /\ pc' = [pc EXCEPT ![c] = "chmod"]
  /\ UNCHANGED <<dir, last, prev, arg, ser, ret>>

\* fs::set_permissions, then Ok(())
Chmod(c) ==
  /\ pc[c] = "chmod"
  /\ file' = set_permissions(file, Mode0600)
  /\ ret' = [ret EXCEPT ![c] = Ok]
  /\ pc' = [pc EXCEPT ![c] = "done"]
  /\ UNCHANGED <<dir, last, prev, arg, ser>>

\* A load once both saves have returned.
LoadAfter ==
  /\ \A c \in Callers : pc[c] = "done"
  /\ last.op # "load"
  /\ Load

NextConc ==
  \/ \E c \in Callers :
       Begin(c) \/ Mkdir(c) \/ Parse(c) \/ Create(c) \/ Write(c) \/ Chmod(c)
  \/ LoadAfter
SpecConc == Init /\ [][NextConc]_vars

\* --------------------------------------------------------------- claims

\* The error kinds of the specification's section 7.
ErrorKind(res) ==
  CASE res = ErrPath  -> "PathResolutionError"
    [] res = ErrParse -> "ParseError"
    [] res \in {ErrRead, ErrMkdir, ErrWrite, ErrPerm} -> "IoError"
    [] OTHER -> "none"

Valid(text)     == from_str(text).ok
ValueOf(text)   == from_str(text).val
Canonical(text) == to_string_pretty(from_str(text).val)
NotJson         == <<"{", "n", "o", "t", " ", "j", "s", "o", "n">>

\* C1: a load that finds a file whose contents are not valid JSON fails with
\* a ParseError; it returns neither None nor a successful result.
C1_LoadRejectsInvalidFile ==
  (last.op = "load" /\ last.before.file.exists /\ ~Valid(last.before.file.bytes))
    => ErrorKind(last.res) = "ParseError"

\* What the code does in C1's case (holds under Spec): the text is not
\* parsed, the load returns Ok(Some(text)) with the file's contents as they
\* are and leaves the file alone.
LoadReturnsInvalidFileVerbatim ==
  (last.op = "load" /\ last.before.file.exists /\ ~Valid(last.before.file.bytes))
    => /\ last.res = Some
       /\ last.text = last.before.file.bytes
       /\ file = last.before.file

\* C1's scenario is reached: `{not json` written to the path, then a load.
NotJsonLoaded ==
  /\ last.op = "load"
  /\ prev.op = "external" /\ prev.blob = NotJson
  /\ last.res = Some /\ last.text = NotJson

\* C2: a save of text that is not valid JSON fails with a ParseError and
\* leaves the file as it was: the same bytes and mode if there was one, and
\* no file if there was none.
C2_MalformedSaveLeavesFile ==
  (last.op = "save" /\ ~Valid(last.blob))
    => /\ ErrorKind(last.res) = "ParseError"
       /\ file = last.before.file

C2_Witness ==
  /\ last.op = "save" /\ ~Valid(last.blob) /\ last.res = ErrParse
  /\ last.before.file.exists /\ Valid(last.before.file.bytes)
  /\ file = last.before.file

\* C3: a load right after a successful save of R returns Some(text) where
\* text parses to a value equal to R's; and a successful save over an
\* existing file leaves R's encoding only, nothing of what was there before.
C3_SaveLoadRoundTrip ==
  /\ (last.op = "load" /\ prev.op = "save" /\ prev.res = Ok)
       => /\ last.res = Some
          /\ Valid(last.text)
          /\ ValueOf(last.text) = ValueOf(prev.blob)
  /\ (last.op = "save" /\ last.res = Ok)
       => /\ file.exists /\ Valid(file.bytes)
          /\ ValueOf(file.bytes) = ValueOf(last.blob)

C3_Witness ==
  /\ last.op = "load" /\ prev.op = "save" /\ prev.res = Ok
  /\ last.res = Some
  /\ last.text # prev.blob
  /\ ValueOf(last.text) = ValueOf(prev.blob)

\* C4 as claimed: through any loads and saves, failing or not, from an
\* absent file, the file is absent or holds the whole canonical encoding of
\* a valid record.
C4_FileAbsentOrCanonical ==
  file.exists => \E b \in Blobs : Valid(b) /\ file.bytes = Canonical(b)

\* C5: a load finding no file returns None, not an error, and a load
\* finding a file never returns None.
C5_LoadAbsentIsNone ==
  last.op = "load"
    => /\ (~last.before.file.exists => last.res = None)
       /\ (last.before.file.exists => last.res # None)
       /\ (last.res = None => ErrorKind(last.res) = "none")

C5_Witness ==
  /\ last.op = "load" /\ last.res = None
  /\ ~dir /\ ~file.exists /\ prev.op = "none"

\* C6: whenever a save returns Ok the file's mode is exactly 0600, whatever
\* mode the file had (or, newly created, was given) before.
C6_SavedFileIsOwnerOnly ==
  (last.op = "save" /\ last.res = Ok) => (file.exists /\ file.mode = Mode0600)

C6_Witness ==
  /\ last.op = "save" /\ last.res = Ok
  /\ last.before.file.exists /\ last.before.file.mode \in LooseModes
  /\ file.mode = Mode0600

\* C7: a successful save right after a successful save of an input with the
\* same JSON value leaves the file as the first save left it, the same bytes
\* and the same mode; and the bytes a successful save leaves are those of
\* every input with the same JSON value, however it was formatted.
C7_SaveIdempotent ==
  [][(last'.op = "save" /\ last'.res = Ok)
     => /\ (/\ last.op = "save" /\ last.res = Ok
            /\ ValueOf(last.blob) = ValueOf(last'.blob))
           => file' = file
        /\ \A b \in Blobs :
             (Valid(b) /\ ValueOf(b) = ValueOf(last'.blob))
               => file'.bytes = Canonical(b)]_vars

C7_Witness ==
  /\ last.op = "save" /\ last.res = Ok
  /\ last.before.file = file
  /\ last.blob # file.bytes

\* C8 as claimed: once two concurrent saves of different valid records have
\* both returned Ok, the file holds the whole canonical encoding of exactly
\* one of them, and a load then returns it.
C8_LastWriterWins ==
  (/\ \A c \in Callers : pc[c] = "done" /\ ret[c] = Ok
   /\ ValueOf(arg["c1"]) # ValueOf(arg["c2"]))
    => /\ \E c \in Callers : file.bytes = Canonical(arg[c])
       /\ last.op = "load" => (last.res = Some /\ last.text = file.bytes)

\* C9: when the write succeeds and set_permissions fails, save returns the
\* permission IoError while the file holds the new record under the mode it
\* had (or was created with); and a save that then succeeds leaves the new
\* record's encoding under mode 0600.
C9_PermissionFailureAfterWrite ==
  /\ (last.op = "save" /\ last.fault = "chmod" /\ Valid(last.blob))
       => /\ last.res = ErrPerm /\ ErrorKind(last.res) = "IoError"
          /\ file.exists /\ file.bytes = Canonical(last.blob)
          /\ IF last.before.file.exists
               THEN file.mode = last.before.file.mode
               ELSE file.mode \in CreateModes
  /\ (last.op = "save" /\ last.res = Ok)
       => /\ file.bytes = Canonical(last.blob)
          /\ file.mode = Mode0600

C9_Witness ==
  /\ last.op = "save" /\ last.res = Ok
  /\ last.before.file.exists /\ Valid(last.before.file.bytes)
  /\ last.before.file.mode # Mode0600
  /\ last.before.file.bytes # file.bytes
  /\ file.mode = Mode0600

\* C10: the directory is created before the blob is validated: a save of
\* malformed text on a fresh store returns the parse error with the file
\* absent and the directory there; and when the directory cannot be created
\* the error is that IoError, malformed blob or not, and no file is written.
C10_DirectoryBeforeValidation ==
  /\ (/\ last.op = "save" /\ ~Valid(last.blob)
      /\ last.fault \notin {"path", "mkdir"}
      /\ ~last.before.dir)
       => (last.res = ErrParse /\ ~file.exists /\ dir)
  /\ (last.op = "save" /\ last.fault = "mkdir")
       => /\ last.res = ErrMkdir /\ ErrorKind(last.res) = "IoError"
          /\ ~file.exists /\ ~dir

C10_Witness ==
  /\ last.op = "save" /\ ~Valid(last.blob) /\ last.fault = NoFault
  /\ ~last.before.dir /\ ~last.before.file.exists
  /\ last.res = ErrParse /\ dir /\ ~file.exists
====
